---------------------------- MODULE Spec2Model ----------------------------
(***************************************************************************)
(* kplay (src/src/kplay.cpp): the WAV source (class WavFile), the Control  *)
(* Actor (Player::MsgHdl), the keyboard loop and session (Player::Go) and  *)
(* the route's lifecycle callbacks (Player::OnStarted / OnStopped).        *)
(*                                                                         *)
(* Two specifications share the variables:                                 *)
(*   SpecWav  the WavFile alone: one thread calling Produce, one calling   *)
(*            SeekToBegin, over every small file that Open accepts;        *)
(*   Spec     the running session after the actor thread has been created  *)
(*            (kplay.cpp:911): main thread, actor thread, route thread.    *)
(*                                                                         *)
(* The lark runtime is not part of the repository.  What the model takes   *)
(* from it is what kplay.cpp relies on and says in its comments:           *)
(*   - Route::Start() on a stopped route starts the route thread and runs  *)
(*     OnStarted in the caller ("Triggered from user", line 953);          *)
(*   - Route::Stop() on a running route stops it and runs                  *)
(*     OnStopped(USER_STOP) in the caller before it returns (lines         *)
(*     278-279); on a route that is already stopped it may or may not run  *)
(*     the callback (both outcomes are in the model);                      *)
(*   - the route thread calls Produce while the route runs; when Produce   *)
(*     returns E_EOF, when a triggered fade-out has completed or when a    *)
(*     stage fails, the route stops on its own and the route thread runs   *)
(*     OnStopped with a reason other than USER_STOP;                       *)
(*   - the FIFO blocks a writer while it holds FifoCap messages.           *)
(***************************************************************************)
EXTENDS Integers, Sequences, FiniteSets, TLC

(***************************************************************************)
(* Program constants                                                       *)
(***************************************************************************)
ID_RIFF == 1179011410
ID_WAVE == 1163280727
ID_DATA == 1635017060
FORMAT_PCM == 1
HeaderSize == 44
ProgressFull == 10000
FifoCap == 1024
FrameMs == 20
E_EOF == -1
VolOne == 100
PitchOne == 1000
PITCH_MIN == 100
PITCH_MAX == 100000
TEMPO_MIN == 100
TEMPO_MAX == 30000

\* the double that is not a number, set apart from every value of the model
NaN == -1000000

(***************************************************************************)
(* Bounds of the model                                                     *)
(***************************************************************************)
MaxPcmBytes == 5
MaxSamples == 2
MaxKeys == 1
PlayPcmBytes == 6
MaxAdjust == 1
RunCap == 102
MaxCap == 3

VARIABLES
    wavFile,        \* the file on disk: [hdr, pcm] (pcm = bytes after the header)
    m_sampleSize,   \* WavFile::m_sampleSize
    m_pcmBytes,     \* WavFile::m_pcmBytes
    m_fin,          \* WavFile::m_fin: [pos, eofbit, failbit]
    m_mutex,        \* WavFile::m_mutex: "none" or the thread that holds it
    s_progress,     \* RefreshDisplay's static s_progress
    prod,           \* the route thread's Produce call: [pc, samples, cur, ret, data]
    seekPc,         \* the actor's position inside SeekToBegin ("none" outside)
    m_mode,         \* Player::m_mode
    m_chNum,        \* Player::m_chNum
    m_state,        \* Player::m_state
    m_pitch,        \* Player::m_pitch, in thousandths
    m_tempo,        \* Player::m_tempo, in thousandths
    m_volL,         \* Player::m_volL, in hundredths
    m_volR,         \* Player::m_volR, in hundredths
    m_volMaster,    \* Player::m_volMaster, in hundredths
    m_mute,         \* Player::m_mute
    m_msgQ,         \* Player::m_msgQ: the messages in the FIFO, oldest first
    route,          \* Player::m_route: [state, fading, cb]
    graph,          \* what Go has created in lark: [fifo (its capacity), route, blocks, ...]
    blk,            \* parameters last set on m_blkGain / m_blkSoundTouch
    actorPc,        \* the actor thread's position in MsgHdl
    goPc,           \* the main thread's position in Go
    keysRead,       \* number of getchar() calls that have returned
    hist            \* history, read by no action

wavVars == <<wavFile, m_sampleSize, m_pcmBytes, m_fin, m_mutex, s_progress, prod, seekPc>>

tuneVars == <<m_pitch, m_tempo, m_volL, m_volR, m_volMaster, m_mute>>

playerVars ==
    <<m_mode, m_chNum, m_state, tuneVars, m_msgQ, route, graph, blk, actorPc, goPc,
      keysRead>>

vars == <<wavVars, playerVars, hist>>

(***************************************************************************)
(* std::ifstream, as far as WavFile uses it                                *)
(***************************************************************************)
\* payload byte i (1-based) of the file; never 0, so padding is recognisable
PcmByte(i) == i

StreamGood(s) == ~s.eofbit /\ ~s.failbit

\* tellg(): -1 when fail() is true, else the position
Tellg(s) == IF s.failbit THEN -1 ELSE s.pos

\* clear(): all state flags reset
StreamClear(s) == [s EXCEPT !.eofbit = FALSE, !.failbit = FALSE]

\* seekg(p): clears eofbit (C++11); moves only when fail() is false
StreamSeekg(s, p) ==
    IF s.failbit THEN [s EXCEPT !.eofbit = FALSE]
    ELSE [s EXCEPT !.eofbit = FALSE, !.pos = p]

\* number of bytes read(buf, want) extracts from a file of fileLen bytes
StreamGcount(s, want, fileLen) ==
    IF ~StreamGood(s) THEN 0
    ELSE IF fileLen - s.pos < want THEN fileLen - s.pos ELSE want

\* the stream after read(buf, want)
StreamRead(s, want, fileLen) ==
    IF ~StreamGood(s) THEN [s EXCEPT !.failbit = TRUE]
    ELSE IF fileLen - s.pos < want
         THEN [pos |-> fileLen, eofbit |-> TRUE, failbit |-> TRUE]
         ELSE [s EXCEPT !.pos = s.pos + want]

(***************************************************************************)
(* WavFile::Open                                                           *)
(***************************************************************************)
FileLen(f) == HeaderSize + f.pcm

OpenOkAnyMagic(f) ==
    /\ f.pcm >= 0
    /\ f.hdr.audio_format = FORMAT_PCM
    /\ f.hdr.data_id = ID_DATA
    /\ ~(f.hdr.num_channels > 2)

OpenOk(f) ==
    /\ f.pcm >= 0
    /\ f.hdr.riff_id = ID_RIFF
    /\ f.hdr.riff_fmt = ID_WAVE
    /\ f.hdr.audio_format = FORMAT_PCM
    /\ f.hdr.data_id = ID_DATA
    /\ ~(f.hdr.num_channels > 2)

OpenSampleSize(f) == (f.hdr.bits_per_sample \div 8) * f.hdr.num_channels

OpenPcmBytes(f) == FileLen(f) - HeaderSize

\* m_fin when Open returns 0: header read, seekg(0, end), seekg(44, beg)
OpenStream(f) ==
    StreamSeekg(StreamSeekg([pos |-> HeaderSize, eofbit |-> FALSE, failbit |-> FALSE],
                            FileLen(f)), HeaderSize)

(***************************************************************************)
(* WavFile::Produce and Player::RefreshDisplay's progress store            *)
(***************************************************************************)
\* C++ integer division truncates toward zero
TruncDiv(a, b) == IF a >= 0 THEN a \div b ELSE -((-a) \div b)

\* (int64_t)(cur - sizeof(struct wav_header)) * 10000 / m_pcmBytes; the unsigned
\* wrap of cur - 44 and the cast back to int64_t give the signed difference
ProgressOf(cur, pcmBytes) == TruncDiv((cur - HeaderSize) * ProgressFull, pcmBytes)

\* RefreshDisplay(progress): the static keeps its value when progress < 0
RefreshDisplay(old, progress) == IF progress >= 0 THEN progress ELSE old

RequestBytes(sampleSize, samples) == sampleSize * samples

\* the buffer after read + memset: got bytes from the file position, zeros after
ProduceData(s, requestBytes, got) ==
    [i \in 1..requestBytes |->
        IF i <= got THEN PcmByte(s.pos - HeaderSize + i) ELSE 0]

\* if (m_fin.read(...)) return samples; else gcount() > 0 ? samples : E_EOF
ProduceRet(after, samples, got) ==
    IF ~after.failbit THEN samples
    ELSE IF got > 0 THEN samples
    ELSE E_EOF

\* one whole Produce(samples) on stream s: what it returns, the block it filled
\* (none at end of stream, where the buffer is left alone), the stream after
ProduceOnce(s, sampleSize, samples, fileLen) ==
    LET req == RequestBytes(sampleSize, samples)
        got == StreamGcount(s, req, fileLen)
        after == StreamRead(s, req, fileLen)
        ret == ProduceRet(after, samples, got)
    IN [ret |-> ret,
        data |-> IF ret = E_EOF THEN <<>> ELSE ProduceData(s, req, got),
        fin |-> after,
        atEnd |-> after.failbit /\ got = 0]

\* rewound:    a SeekToBegin has completed since the last progress store
\* exitStop:   the actor has made the Stop of an exit
\* lateStart:  the actor has called Start after the Stop of an exit
\* synthStart: the actor has called Start while handling a key nobody typed
\* synthExit:  the actor has begun an exit while handling a key nobody typed
\* tracked:    the route has stopped for end of stream, and one such stop is
\*             the tracked one (any one: the stop that is tracked is chosen
\*             freely when it happens)
\* since the tracked stop:
\* staleStarted, staleStopped: the ON_STARTED / ON_STOPPED messages that were
\*             queued before that stop and are still unhandled
\* sawStopped: the actor has handled the ON_STOPPED of that stop
\* userPlay:   the actor has handled a typed Play/Stop key
\* startReq:   the actor has called Start
\* replayed:   the actor has handled an ON_STARTED written after that stop
\* otherStop:  the route has stopped on its own for something else than end of
\*             stream (a stage failed, or a fade-out ended with a reason that
\*             is not USER_STOP)
\* owed:       the ON_STOPPED messages of the route thread the actor has
\*             handled, less the synthesized 'z' keys it has handled
\* starts:     the Start calls the actor has made since it last handled an
\*             ON_STOPPED (since the beginning when it has handled none),
\*             counted up to 2
\* exitRunning: the actor has handled an exit key while the route was running
\* exitAcked:  after that, it has handled the ON_STOPPED written inside the
\*             Stop of that exit
\* under SpecKeys:
\* key:        the key MsgHdl handled last
\* pushed:     handling it called SetParameter
\* run:        the 'e' keys handled in a row since the balance was (1.0, 1.0)
\* adjusts:    the pitch, tempo and volume keys handled
\* opt:        the values of -v, -p and -t the session was started with
HistInit ==
    [rewound |-> FALSE, exitStop |-> FALSE, lateStart |-> FALSE,
     synthStart |-> FALSE, synthExit |-> FALSE, sawStopped |-> FALSE,
     userPlay |-> FALSE, tracked |-> FALSE, startReq |-> FALSE, replayed |-> FALSE,
     staleStarted |-> 0, staleStopped |-> 0,
     key |-> "", pushed |-> FALSE, run |-> 0, adjusts |-> 0,
     opt |-> [v |-> VolOne, p |-> PitchOne, t |-> PitchOne],
     otherStop |-> FALSE, owed |-> 0,
     exitRunning |-> FALSE, exitAcked |-> FALSE, starts |-> 0]

\* the process runs: Go has not returned or aborted, no fatal signal
Alive == goPc \notin {"done", "abort"} /\ prod.pc # "sigfpe"

ProdIdle == [pc |-> "idle", samples |-> 0, cur |-> 0, ret |-> 0, data |-> <<>>]

MutexFree(m) == m = "none"

\* the call: timestamp store and requestBytes, up to the lock_guard
ProduceCall(n) ==
    /\ prod.pc = "idle"
    /\ prod' = [pc |-> "lock", samples |-> n, cur |-> 0, ret |-> 0, data |-> <<>>]
    /\ UNCHANGED <<wavFile, m_sampleSize, m_pcmBytes, m_fin, m_mutex, s_progress, seekPc, hist, playerVars>>

\* std::lock_guard<std::mutex> _l(m_mutex)
ProduceLock ==
    /\ Alive
    /\ prod.pc = "lock"
    /\ MutexFree(m_mutex)
    /\ m_mutex' = "engine"
    /\ prod' = [prod EXCEPT !.pc = "tell"]
    /\ UNCHANGED <<wavFile, m_sampleSize, m_pcmBytes, m_fin, s_progress, seekPc, hist, playerVars>>

\* long cur = m_fin.tellg(); RefreshDisplay(... / m_pcmBytes).  A division by
\* zero is undefined: the process is killed (SIGFPE) or the quotient is 0.
ProduceTell ==
    /\ Alive
    /\ prod.pc = "tell"
    /\ \/ /\ m_pcmBytes # 0
          /\ prod' = [prod EXCEPT !.pc = "read", !.cur = Tellg(m_fin)]
          /\ s_progress' = RefreshDisplay(s_progress, ProgressOf(Tellg(m_fin), m_pcmBytes))
       \/ /\ m_pcmBytes = 0
          /\ prod' = [prod EXCEPT !.pc = "read", !.cur = Tellg(m_fin)]
          /\ s_progress' = RefreshDisplay(s_progress, 0)
       \/ /\ m_pcmBytes = 0
          /\ prod' = [prod EXCEPT !.pc = "sigfpe", !.cur = Tellg(m_fin)]
          /\ UNCHANGED s_progress
    /\ UNCHANGED <<wavFile, m_sampleSize, m_pcmBytes, m_fin, m_mutex, seekPc, playerVars>>
    /\ hist' = [hist EXCEPT !.rewound = FALSE]

\* m_fin.read, the zero fill of a short read, RefreshDisplay(10000) at end of
\* stream, and the return (which releases the lock_guard)
ProduceRead ==
    /\ Alive
    /\ prod.pc = "read"
    /\ LET r == ProduceOnce(m_fin, m_sampleSize, prod.samples, FileLen(wavFile))
       IN /\ m_fin' = r.fin
          /\ prod' = [prod EXCEPT !.pc = "ret", !.ret = r.ret, !.data = r.data]
          /\ s_progress' = IF r.atEnd THEN RefreshDisplay(s_progress, ProgressFull)
                           ELSE s_progress
    /\ m_mutex' = "none"
    /\ UNCHANGED <<wavFile, m_sampleSize, m_pcmBytes, seekPc, hist, playerVars>>

(***************************************************************************)
(* WavFile::SeekToBegin                                                    *)
(***************************************************************************)
\* SeekToBegin without the lock_guard
SeekLockMissing ==
    /\ Alive
    /\ seekPc = "lock"
    /\ seekPc' = "clear"
    /\ UNCHANGED <<wavFile, m_sampleSize, m_pcmBytes, m_fin, m_mutex, s_progress, prod, hist, playerVars>>

\* std::lock_guard<std::mutex> _l(m_mutex)
SeekLock ==
    /\ Alive
    /\ seekPc = "lock"
    /\ MutexFree(m_mutex)
    /\ m_mutex' = "actor"
    /\ seekPc' = "clear"
    /\ UNCHANGED <<wavFile, m_sampleSize, m_pcmBytes, m_fin, s_progress, prod, hist, playerVars>>

\* SeekToBegin without m_fin.clear()
SeekClearMissing ==
    /\ Alive
    /\ seekPc = "clear"
    /\ seekPc' = "seekg"
    /\ UNCHANGED <<wavFile, m_sampleSize, m_pcmBytes, m_fin, m_mutex, s_progress, prod, hist, playerVars>>

\* m_fin.clear()
SeekClear ==
    /\ Alive
    /\ seekPc = "clear"
    /\ m_fin' = StreamClear(m_fin)
    /\ seekPc' = "seekg"
    /\ UNCHANGED <<wavFile, m_sampleSize, m_pcmBytes, m_mutex, s_progress, prod, hist, playerVars>>

\* m_fin.seekg(sizeof(struct wav_header), std::ios::beg) and the return
SeekSeekg ==
    /\ Alive
    /\ seekPc = "seekg"
    /\ m_fin' = StreamSeekg(m_fin, HeaderSize)
    /\ m_mutex' = IF m_mutex = "actor" THEN "none" ELSE m_mutex
    /\ seekPc' = "done"
    /\ UNCHANGED <<wavFile, m_sampleSize, m_pcmBytes, s_progress, prod, playerVars>>
    /\ hist' = [hist EXCEPT !.rewound = TRUE]

(***************************************************************************)
(* SpecWav: the WavFile under one producer thread and one seeking thread   *)
(***************************************************************************)
ValidHeader ==
    [riff_id |-> ID_RIFF, riff_fmt |-> ID_WAVE, audio_format |-> FORMAT_PCM,
     data_id |-> ID_DATA, num_channels |-> 2, bits_per_sample |-> 16,
     sample_rate |-> 50]

WavHeaders ==
    { [ValidHeader EXCEPT !.num_channels = c, !.bits_per_sample = b] :
        c \in {0, 1, 2}, b \in {8, 16} }

WavFiles == { [hdr |-> h, pcm |-> p] : h \in WavHeaders, p \in 0..MaxPcmBytes }

\* the WavFile once Open(f) has returned 0
WavFields(f) ==
    /\ wavFile = f
    /\ m_sampleSize = OpenSampleSize(f)
    /\ m_pcmBytes = OpenPcmBytes(f)
    /\ m_fin = OpenStream(f)
    /\ m_mutex = "none"
    /\ s_progress = 0
    /\ prod = ProdIdle
    /\ seekPc = "none"

WavOpened(f) == WavFields(f) /\ hist = HistInit

(***************************************************************************)
(* Player: messages, the route as kplay.cpp uses it, the callbacks         *)
(***************************************************************************)
NORMAL == "NORMAL"
REPEAT == "REPEAT"
NONINTERACTIVE == "NONINTERACTIVE"
STOPPED == "STOPPED"
PLAYING == "PLAYING"

Modes == {NORMAL, REPEAT, NONINTERACTIVE}

\* struct Message {id, key}; from (history) names the thread that wrote it:
\* "kbd" the keyboard loop, "route" the route thread, "caller" a callback run
\* inside Start/Stop, "actor" the actor itself
Msg(id, key, from) == [id |-> id, key |-> key, from |-> from]

\* the FIFO has room for n more messages (graph.fifo is its capacity)
Room(n) == Len(m_msgQ) + n <= graph.fifo

\* Player::OnStarted: one ON_STARTED message
OnStarted(q) == Append(q, Msg("ON_STARTED", "-", "caller"))

\* Player::OnStopped, first Consume: one ON_STOPPED message
OnStoppedFirst(q, from) == Append(q, Msg("ON_STOPPED", "-", from))

\* Player::OnStopped, second Consume (reason != USER_STOP): 'z', then 'x' in
\* REPEAT or 'c' in NONINTERACTIVE; one message in NORMAL, two otherwise
OnStoppedKeyAlwaysExit(mode) == "c"

\* msg[1].key = (m_mode == Mode::REPEAT) ? 'x' : 'c'
OnStoppedKey(mode) == IF mode = REPEAT THEN "x" ELSE "c"

OnStoppedCountAlwaysTwo(mode) == 2

\* (m_mode == Mode::NORMAL) ? 1 : 2
OnStoppedCount(mode) == IF mode = NORMAL THEN 1 ELSE 2

OnStoppedSecond(q, mode) ==
    LET msg0 == Msg("ON_KEY", "z", "route")
        msg1 == Msg("ON_KEY", OnStoppedKey(mode), "route")
    IN q \o SubSeq(<<msg0, msg1>>, 1, OnStoppedCount(mode))

\* m_route->Start(): a stopped route starts running and OnStarted runs in the
\* caller; on a running route nothing happens
StartRoute(r) ==
    IF r.state = "stopped" THEN [r EXCEPT !.state = "running", !.fading = FALSE] ELSE r

StartQueue(r, q) == IF r.state = "stopped" THEN OnStarted(q) ELSE q

\* the route stops on its own: the route thread ends and runs OnStopped's first
\* Consume; cb is the reason of an OnStopped that still has its second Consume
\* to make ("none" when there is none, as after USER_STOP)
SelfStopRoute(r, reason) == [state |-> "stopped", fading |-> FALSE, cb |-> reason]

CountOf(q, id) == Cardinality({i \in 1..Len(q) : q[i].id = id})

\* history at a stop for end of stream: the stop becomes the tracked one, or
\* (when another is tracked already, or by choice) it does not
HistAtEos(h, track) ==
    IF track /\ ~h.tracked
    THEN [h EXCEPT !.tracked = TRUE,
                   !.staleStarted = CountOf(m_msgQ, "ON_STARTED"),
                   !.staleStopped = CountOf(m_msgQ, "ON_STOPPED")]
    ELSE h

Min(a, b) == IF a < b THEN a ELSE b

Max(a, b) == IF a > b THEN a ELSE b

(***************************************************************************)
(* The doubles of the playback state.  m_volL, m_volR and m_volMaster are  *)
(* counted in hundredths (VolOne is 1.0), m_pitch and m_tempo in           *)
(* thousandths (PitchOne is 1.0).  The steps of 0.01 taken from 1.0 reach  *)
(* 0.0 and 1.0 exactly through std::max and std::min, so the comparisons   *)
(* with 0.0 and 1.0 agree with those of the doubles; the products by 1.01  *)
(* and 0.99 are rounded down.  NaN is the value atof returns for "nan":    *)
(* every comparison with it is false and every sum or product with it is   *)
(* NaN.                                                                    *)
(***************************************************************************)
IsNaN(a) == a = NaN

FLt(a, b) == ~IsNaN(a) /\ ~IsNaN(b) /\ a < b

FGt(a, b) == FLt(b, a)

FEq(a, b) == ~IsNaN(a) /\ ~IsNaN(b) /\ a = b

FLe(a, b) == FLt(a, b) \/ FEq(a, b)

FGe(a, b) == FLe(b, a)

\* std::min(a, b) is (b < a) ? b : a
FMin(a, b) == IF FLt(b, a) THEN b ELSE a

\* std::max(a, b) is (a < b) ? b : a
FMax(a, b) == IF FLt(a, b) THEN b ELSE a

\* a + d and a - d for a step d of the same unit
FAdd(a, d) == IF IsNaN(a) THEN NaN ELSE a + d

\* a * 1.01 and a * 0.99, as a * num / 100
FScale(a, num) == IF IsNaN(a) THEN NaN ELSE (a * num) \div 100

(***************************************************************************)
(* Player::MsgHdl: the keys that retune the graph                          *)
(***************************************************************************)
\* m_vol? * m_volMaster * (m_mute ? 0.0 : 1.0), in ten-thousandths
Gain(vol, master, mute) ==
    IF IsNaN(vol) \/ IsNaN(master) THEN NaN ELSE vol * master * (IF mute THEN 0 ELSE 1)

\* the args of a gain push: channel 0, and channel 1 when m_chNum == 2
PushGains(b, chNum, g0, g1) ==
    IF chNum = 2 THEN [b EXCEPT !.gain0 = g0, !.gain1 = g1] ELSE [b EXCEPT !.gain0 = g0]

\* m_route->SetParameter was called with the parameters of b
Pushed(t, b) == [t EXCEPT !.blk = b, !.pushed = TRUE]

OnKeyRAlwaysPushes(t) ==
    LET v == FMin(FScale(t.pitch, 101), PITCH_MAX)
    IN Pushed([t EXCEPT !.pitch = v], [t.blk EXCEPT !.pitch = v])

\* case 'r': pitch high
OnKeyR(t) ==
    IF FGe(t.pitch, PITCH_MAX) THEN t
    ELSE LET v == FMin(FScale(t.pitch, 101), PITCH_MAX)
         IN Pushed([t EXCEPT !.pitch = v], [t.blk EXCEPT !.pitch = v])

\* case 'f': pitch low
OnKeyF(t) ==
    IF FLe(t.pitch, PITCH_MIN) THEN t
    ELSE LET v == FMax(FScale(t.pitch, 99), PITCH_MIN)
         IN Pushed([t EXCEPT !.pitch = v], [t.blk EXCEPT !.pitch = v])

\* case 'v': pitch reset
OnKeyV(t) == Pushed([t EXCEPT !.pitch = PitchOne], [t.blk EXCEPT !.pitch = PitchOne])

\* case 't': tempo fast
OnKeyT(t) ==
    IF FGe(t.tempo, TEMPO_MAX) THEN t
    ELSE LET v == FMin(FScale(t.tempo, 101), TEMPO_MAX)
         IN Pushed([t EXCEPT !.tempo = v], [t.blk EXCEPT !.tempo = v])

\* case 'g': tempo slow
OnKeyG(t) ==
    IF FLe(t.tempo, TEMPO_MIN) THEN t
    ELSE LET v == FMax(FScale(t.tempo, 99), TEMPO_MIN)
         IN Pushed([t EXCEPT !.tempo = v], [t.blk EXCEPT !.tempo = v])

\* case 'b': tempo reset
OnKeyB(t) == Pushed([t EXCEPT !.tempo = PitchOne], [t.blk EXCEPT !.tempo = PitchOne])

OnKeyENoFloor(chNum, t) ==
    IF chNum = 1 THEN t
    ELSE IF FLt(t.volR, VolOne)
    THEN LET v == FMin(FAdd(t.volR, 1), VolOne)
         IN Pushed([t EXCEPT !.volR = v],
                   [t.blk EXCEPT !.gain1 = Gain(v, t.master, t.mute)])
    ELSE LET v == FMax(FAdd(t.volL, -1), 0)
         IN Pushed([t EXCEPT !.volL = v],
                   [t.blk EXCEPT !.gain0 = Gain(v, t.master, t.mute)])

\* case 'e': balance right
OnKeyE(chNum, t) ==
    IF chNum = 1 THEN t
    ELSE IF FLt(t.volR, VolOne)
    THEN LET v == FMin(FAdd(t.volR, 1), VolOne)
         IN Pushed([t EXCEPT !.volR = v],
                   [t.blk EXCEPT !.gain1 = Gain(v, t.master, t.mute)])
    ELSE IF FEq(t.volL, 0) THEN t
    ELSE LET v == FMax(FAdd(t.volL, -1), 0)
         IN Pushed([t EXCEPT !.volL = v],
                   [t.blk EXCEPT !.gain0 = Gain(v, t.master, t.mute)])

OnKeyQLowersRight(chNum, t) ==
    IF chNum = 1 THEN t
    ELSE IF FEq(t.volR, 0) THEN t
    ELSE LET v == FMax(FAdd(t.volR, -1), 0)
         IN Pushed([t EXCEPT !.volR = v],
                   [t.blk EXCEPT !.gain1 = Gain(v, t.master, t.mute)])

\* case 'q': balance left
OnKeyQ(chNum, t) ==
    IF chNum = 1 THEN t
    ELSE IF FLt(t.volL, VolOne)
    THEN LET v == FMin(FAdd(t.volL, 1), VolOne)
         IN Pushed([t EXCEPT !.volL = v],
                   [t.blk EXCEPT !.gain0 = Gain(v, t.master, t.mute)])
    ELSE IF FEq(t.volR, 0) THEN t
    ELSE LET v == FMax(FAdd(t.volR, -1), 0)
         IN Pushed([t EXCEPT !.volR = v],
                   [t.blk EXCEPT !.gain1 = Gain(v, t.master, t.mute)])

\* case 'w': balance mid
OnKeyW(chNum, t) ==
    IF chNum = 1 THEN t
    ELSE IF FEq(t.volL, VolOne) /\ FEq(t.volR, VolOne) THEN t
    ELSE Pushed([t EXCEPT !.volL = VolOne, !.volR = VolOne],
                PushGains(t.blk, chNum, Gain(VolOne, t.master, t.mute),
                                        Gain(VolOne, t.master, t.mute)))

OnKeyDMutes(chNum, t) ==
    Pushed([t EXCEPT !.mute = TRUE],
           PushGains(t.blk, chNum, Gain(t.volL, t.master, TRUE),
                                   Gain(t.volR, t.master, TRUE)))

\* case 'd': mute, unmute
OnKeyD(chNum, t) ==
    Pushed([t EXCEPT !.mute = ~t.mute],
           PushGains(t.blk, chNum, Gain(t.volL, t.master, ~t.mute),
                                   Gain(t.volR, t.master, ~t.mute)))

OnKeyAKeepsMute(chNum, t) ==
    IF FEq(t.master, 0) THEN t
    ELSE LET v == FMax(FAdd(t.master, -1), 0)
         IN Pushed([t EXCEPT !.master = v],
                   PushGains(t.blk, chNum, Gain(t.volL, v, FALSE), Gain(t.volR, v, FALSE)))

\* case 'a': volume down
OnKeyA(chNum, t) ==
    IF FEq(t.master, 0) THEN t
    ELSE LET v == FMax(FAdd(t.master, -1), 0)
         IN Pushed([t EXCEPT !.master = v, !.mute = FEq(v, 0)],
                   PushGains(t.blk, chNum, Gain(t.volL, v, FALSE), Gain(t.volR, v, FALSE)))

\* case 's': volume up
OnKeyS(chNum, t) ==
    IF FEq(t.master, VolOne) THEN t
    ELSE LET v == FMin(FAdd(t.master, 1), VolOne)
         IN Pushed([t EXCEPT !.master = v, !.mute = FEq(v, 0)],
                   PushGains(t.blk, chNum, Gain(t.volL, v, FALSE), Gain(t.volR, v, FALSE)))

\* the playback state and stage parameters after MsgHdl's case for key on t0,
\* and whether the case called SetParameter
OnTuneKey(key, chNum, t0) ==
    LET t == [t0 EXCEPT !.pushed = FALSE]
    IN CASE key = "r" -> OnKeyR(t)
         [] key = "f" -> OnKeyF(t)
         [] key = "v" -> OnKeyV(t)
         [] key = "t" -> OnKeyT(t)
         [] key = "g" -> OnKeyG(t)
         [] key = "b" -> OnKeyB(t)
         [] key = "e" -> OnKeyE(chNum, t)
         [] key = "q" -> OnKeyQ(chNum, t)
         [] key = "w" -> OnKeyW(chNum, t)
         [] key = "d" -> OnKeyD(chNum, t)
         [] key = "a" -> OnKeyA(chNum, t)
         [] key = "s" -> OnKeyS(chNum, t)
         [] OTHER -> t

Tune ==
    [pitch |-> m_pitch, tempo |-> m_tempo, volL |-> m_volL, volR |-> m_volR,
     master |-> m_volMaster, mute |-> m_mute, blk |-> blk, pushed |-> FALSE]

SetTune(t) ==
    /\ m_pitch' = t.pitch
    /\ m_tempo' = t.tempo
    /\ m_volL' = t.volL
    /\ m_volR' = t.volR
    /\ m_volMaster' = t.master
    /\ m_mute' = t.mute
    /\ blk' = t.blk

TransportKeys == {"c", "z", "x"}

(***************************************************************************)
(* Player::MsgHdl: the actor thread                                        *)
(***************************************************************************)
ActorHas(id) ==
    /\ Alive
    /\ actorPc = "recv"
    /\ m_msgQ # <<>>
    /\ Head(m_msgQ).id = id

\* case 'c' with a Stop that returns without having written ON_STOPPED
ActorKeyExitStopSilent ==
    /\ ActorHas("ON_KEY")
    /\ Head(m_msgQ).key = "c"
    /\ \/ /\ route.state = "running"
          /\ prod.pc = "idle"
          /\ route' = [route EXCEPT !.state = "stopped", !.fading = FALSE]
          /\ m_msgQ' = Tail(m_msgQ)
       \/ /\ route.state = "stopped"
          /\ Room(0)
          /\ m_msgQ' = OnStoppedFirst(Tail(m_msgQ), "caller")
          /\ UNCHANGED route
       \/ /\ route.state = "stopped"
          /\ m_msgQ' = Tail(m_msgQ)
          /\ UNCHANGED route
    /\ actorPc' = "post_exit"
    /\ hist' = [hist EXCEPT !.exitStop = TRUE,
                            !.exitRunning = @ \/ route.state = "running",
                            !.synthExit = @ \/ Head(m_msgQ).from # "kbd"]
    /\ UNCHANGED <<wavVars, m_mode, m_chNum, graph, m_state, tuneVars, blk, goPc, keysRead>>

\* case 'c': m_route->Stop(); the EXIT message is posted by ActorPostExit.
\* Stop() returns when the route thread is out of Produce; on a route that is
\* already stopped it runs the callback or not.
ActorKeyExit ==
    /\ ActorHas("ON_KEY")
    /\ Head(m_msgQ).key = "c"
    /\ \/ /\ route.state = "running"
          /\ prod.pc = "idle"
          /\ Room(0)
          /\ route' = [route EXCEPT !.state = "stopped", !.fading = FALSE]
          /\ m_msgQ' = OnStoppedFirst(Tail(m_msgQ), "caller")
       \/ /\ route.state = "stopped"
          /\ Room(0)
          /\ m_msgQ' = OnStoppedFirst(Tail(m_msgQ), "caller")
          /\ UNCHANGED route
       \/ /\ route.state = "stopped"
          /\ m_msgQ' = Tail(m_msgQ)
          /\ UNCHANGED route
    /\ actorPc' = "post_exit"
    /\ hist' = [hist EXCEPT !.exitStop = TRUE,
                            !.exitRunning = @ \/ route.state = "running",
                            !.synthExit = @ \/ Head(m_msgQ).from # "kbd"]
    /\ UNCHANGED <<wavVars, m_mode, m_chNum, graph, m_state, tuneVars, blk, goPc, keysRead>>

\* msg.id = Message::EXIT; m_msgQ->Consume(&msg, 1, -1)
ActorPostExit ==
    /\ Alive
    /\ actorPc = "post_exit"
    /\ Room(1)
    /\ m_msgQ' = Append(m_msgQ, Msg("EXIT", "c", "actor"))
    /\ actorPc' = "recv"
    /\ UNCHANGED <<wavVars, m_mode, m_chNum, graph, m_state, tuneVars, route, blk, goPc, keysRead, hist>>

\* case 'z': m_wav.SeekToBegin()
ActorKeySeek ==
    /\ ActorHas("ON_KEY")
    /\ Head(m_msgQ).key = "z"
    /\ m_msgQ' = Tail(m_msgQ)
    /\ actorPc' = "seek"
    /\ seekPc' = "lock"
    /\ hist' = IF Head(m_msgQ).from = "route" THEN [hist EXCEPT !.owed = @ - 1] ELSE hist
    /\ UNCHANGED <<wavFile, m_sampleSize, m_pcmBytes, m_fin, m_mutex, s_progress, prod>>
    /\ UNCHANGED <<m_mode, m_chNum, graph, m_state, tuneVars, route, blk, goPc, keysRead>>

\* SeekToBegin has returned; back to the top of the loop
ActorSeekReturn ==
    /\ Alive
    /\ actorPc = "seek"
    /\ seekPc = "done"
    /\ actorPc' = "recv"
    /\ seekPc' = "none"
    /\ UNCHANGED <<wavFile, m_sampleSize, m_pcmBytes, m_fin, m_mutex, s_progress, prod>>
    /\ UNCHANGED <<m_mode, m_chNum, graph, m_state, tuneVars, m_msgQ, route, blk, goPc, keysRead, hist>>

\* case 'x' that takes the transport state as changed at once
ActorKeyPlayStopAssumes ==
    /\ ActorHas("ON_KEY")
    /\ Head(m_msgQ).key = "x"
    /\ IF m_state = STOPPED
       THEN /\ Room(0)
            /\ route' = StartRoute(route)
            /\ m_msgQ' = StartQueue(route, Tail(m_msgQ))
            /\ m_state' = PLAYING
       ELSE /\ route' = [route EXCEPT !.fading = (route.state = "running")]
            /\ m_msgQ' = Tail(m_msgQ)
            /\ m_state' = STOPPED
    /\ UNCHANGED <<wavVars, m_mode, m_chNum, graph, tuneVars, blk, actorPc, goPc, keysRead, hist>>

\* case 'x': Start when m_state is STOPPED, trigger the fade-out when PLAYING
\* (the trigger reaches a running route only)
ActorKeyPlayStop ==
    /\ ActorHas("ON_KEY")
    /\ Head(m_msgQ).key = "x"
    /\ IF m_state = STOPPED
       THEN /\ Room(0)
            /\ route' = StartRoute(route)
            /\ m_msgQ' = StartQueue(route, Tail(m_msgQ))
            /\ hist' = [hist EXCEPT !.startReq = hist.tracked,
                                    !.starts = Min(@ + 1, 2),
                                    !.lateStart = @ \/ hist.exitStop,
                                    !.synthStart = @ \/ Head(m_msgQ).from # "kbd",
                                    !.userPlay = @ \/ (hist.tracked /\ Head(m_msgQ).from = "kbd")]
       ELSE /\ route' = [route EXCEPT !.fading = (route.state = "running")]
            /\ m_msgQ' = Tail(m_msgQ)
            /\ hist' = [hist EXCEPT !.userPlay = @ \/ (hist.tracked /\ Head(m_msgQ).from = "kbd")]
    /\ UNCHANGED <<wavVars, m_mode, m_chNum, graph, m_state, tuneVars, blk, actorPc, goPc, keysRead>>

\* every other key: the state mutation and the parameter push
ActorKeyTune ==
    /\ ActorHas("ON_KEY")
    /\ Head(m_msgQ).key \notin TransportKeys
    /\ SetTune(OnTuneKey(Head(m_msgQ).key, m_chNum, Tune))
    /\ m_msgQ' = Tail(m_msgQ)
    /\ UNCHANGED <<wavVars, m_mode, m_chNum, graph, m_state, route, actorPc, goPc, keysRead, hist>>

\* msg.id == Message::ON_STOPPED
ActorOnStopped ==
    /\ ActorHas("ON_STOPPED")
    /\ m_state' = STOPPED
    /\ m_msgQ' = Tail(m_msgQ)
    /\ LET owed == IF Head(m_msgQ).from = "route" THEN hist.owed + 1 ELSE hist.owed
           acked == hist.exitAcked \/ (hist.exitRunning /\ Head(m_msgQ).from = "caller")
       IN hist' = IF hist.staleStopped > 0
                  THEN [hist EXCEPT !.staleStopped = @ - 1, !.owed = owed, !.exitAcked = acked,
                                    !.starts = 0]
                  ELSE [hist EXCEPT !.sawStopped = hist.tracked, !.owed = owed,
                                    !.exitAcked = acked, !.starts = 0]
    /\ UNCHANGED <<wavVars, m_mode, m_chNum, graph, tuneVars, route, blk, actorPc, goPc, keysRead>>

\* msg.id == Message::ON_STARTED
ActorOnStarted ==
    /\ ActorHas("ON_STARTED")
    /\ m_state' = PLAYING
    /\ m_msgQ' = Tail(m_msgQ)
    /\ hist' = IF hist.staleStarted > 0 THEN [hist EXCEPT !.staleStarted = @ - 1]
               ELSE [hist EXCEPT !.replayed = hist.tracked]
    /\ UNCHANGED <<wavVars, m_mode, m_chNum, graph, tuneVars, route, blk, actorPc, goPc, keysRead>>

\* msg.id == Message::EXIT: the loop ends
ActorOnExit ==
    /\ ActorHas("EXIT")
    /\ m_msgQ' = Tail(m_msgQ)
    /\ actorPc' = "exited"
    /\ UNCHANGED <<wavVars, m_mode, m_chNum, graph, m_state, tuneVars, route, blk, goPc, keysRead, hist>>

(***************************************************************************)
(* The route thread                                                        *)
(***************************************************************************)
\* 20/*ms*/ * rate / 1000
FrameSizeInSamples(rate) == (FrameMs * rate) \div 1000

\* the route thread asks the source for the next block
RouteProduce ==
    /\ Alive
    /\ route.state = "running"
    /\ ProduceCall(FrameSizeInSamples(wavFile.hdr.sample_rate))

\* Produce has returned: a block goes down the graph; E_EOF stops the route,
\* and OnStopped(reason != USER_STOP) begins on the route thread
RouteProduceReturn ==
    /\ Alive
    /\ prod.pc = "ret"
    /\ IF prod.ret = E_EOF
       THEN /\ route.cb = "none"
            /\ Room(1)
            /\ route' = SelfStopRoute(route, "eos")
            /\ m_msgQ' = OnStoppedFirst(m_msgQ, "route")
            /\ \E track \in BOOLEAN : hist' = HistAtEos(hist, track)
       ELSE UNCHANGED <<route, m_msgQ, hist>>
    /\ prod' = [prod EXCEPT !.pc = "idle"]
    /\ UNCHANGED <<wavFile, m_sampleSize, m_pcmBytes, m_fin, m_mutex, s_progress, seekPc>>
    /\ UNCHANGED <<m_mode, m_chNum, graph, m_state, tuneVars, blk, actorPc, goPc, keysRead>>

\* a triggered fade-out has run to its end and the route stops; the reason
\* it passes to OnStopped is the runtime's choice: USER_STOP or another
RouteFadeOutDone ==
    /\ Alive
    /\ route.state = "running"
    /\ route.fading
    /\ prod.pc = "idle"
    /\ route.cb = "none"
    /\ Room(1)
    /\ \E reason \in {"none", "fade"} :
          /\ route' = SelfStopRoute(route, reason)
          /\ hist' = [hist EXCEPT !.otherStop = @ \/ reason # "none"]
    /\ m_msgQ' = OnStoppedFirst(m_msgQ, "route")
    /\ UNCHANGED <<wavVars, m_mode, m_chNum, graph, m_state, tuneVars, blk, actorPc, goPc, keysRead>>

\* a stage fails while the route runs
RouteError ==
    /\ Alive
    /\ route.state = "running"
    /\ prod.pc = "idle"
    /\ route.cb = "none"
    /\ Room(1)
    /\ route' = SelfStopRoute(route, "error")
    /\ m_msgQ' = OnStoppedFirst(m_msgQ, "route")
    /\ hist' = [hist EXCEPT !.otherStop = TRUE]
    /\ UNCHANGED <<wavVars, m_mode, m_chNum, graph, m_state, tuneVars, blk, actorPc, goPc, keysRead>>

\* an OnStopped that also writes the transport state itself
RouteOnStoppedWritesState ==
    /\ Alive
    /\ route.cb # "none"
    /\ Room(OnStoppedCount(m_mode))
    /\ m_msgQ' = OnStoppedSecond(m_msgQ, m_mode)
    /\ route' = [route EXCEPT !.cb = "none"]
    /\ m_state' = STOPPED
    /\ UNCHANGED <<wavVars, m_mode, m_chNum, graph, tuneVars, blk, actorPc, goPc, keysRead, hist>>

\* OnStopped's second Consume, on the route thread
RouteOnStoppedSecond ==
    /\ Alive
    /\ route.cb # "none"
    /\ Room(OnStoppedCount(m_mode))
    /\ m_msgQ' = OnStoppedSecond(m_msgQ, m_mode)
    /\ route' = [route EXCEPT !.cb = "none"]
    /\ UNCHANGED <<wavVars, m_mode, m_chNum, graph, m_state, tuneVars, blk, actorPc, goPc, keysRead, hist>>

(***************************************************************************)
(* Player::Go up to the creation of the actor thread: Open, the bit-depth  *)
(* check, the FIFO, the route, its blocks and its links.  NewFIFO,         *)
(* NewRoute, NewBlock and NewLink are lark's and may each return null.     *)
(***************************************************************************)
Block(name) == [kind |-> "block", name |-> name, from |-> "", to |-> ""]

Link(from, to) == [kind |-> "link", name |-> "", from |-> from, to |-> to]

\* the NewBlock calls of Go in program order
BlockSteps(chNum) ==
    <<Block("streamin"), Block("fadein"), Block("gain")>>
    \o (IF chNum = 2 THEN <<Block("deinterleave"), Block("interleave")>> ELSE <<>>)
    \o <<Block("formatadapter"), Block("soundtouch"), Block("formatadapter1"),
         Block("fadeout"), Block("output")>>

\* the NewLink calls of Go in program order
LinkSteps(chNum) ==
    <<Link("streamin", "formatadapter"), Link("formatadapter", "fadein")>>
    \o (IF chNum = 2
        THEN <<Link("fadein", "deinterleave"), Link("deinterleave", "gain"),
               Link("deinterleave", "gain"), Link("gain", "interleave"),
               Link("gain", "interleave"), Link("interleave", "soundtouch")>>
        ELSE <<Link("fadein", "gain"), Link("gain", "soundtouch")>>)
    \o <<Link("soundtouch", "fadeout"), Link("fadeout", "formatadapter1")>>

\* the blocks and links of the -f option (savingFile != ""), or the one link
\* to the output
SavingSteps(saving) ==
    IF saving
    THEN <<Block("filewriter"), Block("duplicator"), Link("formatadapter1", "duplicator"),
           Link("duplicator", "output"), Link("duplicator", "filewriter")>>
    ELSE <<Link("formatadapter1", "output")>>

BuildSteps(chNum, saving) == BlockSteps(chNum) \o LinkSteps(chNum) \o SavingSteps(saving)

\* nothing created yet
NoGraph(saving) ==
    [fifo |-> 0, route |-> "none", blocks |-> {}, links |-> 0, step |-> 1,
     failed |-> "", saving |-> saving]

\* the graph when every call of Go has succeeded
BuiltGraph(chNum, saving) ==
    LET steps == BuildSteps(chNum, saving)
    IN [fifo |-> FifoCap, route |-> "live",
        blocks |-> {steps[i].name : i \in {j \in 1..Len(steps) : steps[j].kind = "block"}},
        links |-> Cardinality({j \in 1..Len(steps) : steps[j].kind = "link"}),
        step |-> Len(steps) + 1, failed |-> "", saving |-> saving]

\* the step Go is at
GoStep == BuildSteps(m_chNum, graph.saving)[graph.step]

\* pc after the step: the next NewBlock or NewLink, or the thread creation
AfterStep == IF graph.step = Len(BuildSteps(m_chNum, graph.saving)) THEN "thread" ELSE "build"

\* the switch on header.bits_per_sample
BitsOk(h) == h.bits_per_sample \in {16, 24, 32}

\* m_wav.Open(argv[optind]) and the return when it fails
GoOpen ==
    /\ goPc = "open"
    /\ IF OpenOk(wavFile)
       THEN /\ m_sampleSize' = OpenSampleSize(wavFile)
            /\ m_pcmBytes' = OpenPcmBytes(wavFile)
            /\ m_fin' = OpenStream(wavFile)
            /\ goPc' = "bits"
       ELSE /\ goPc' = "error"
            /\ UNCHANGED <<m_sampleSize, m_pcmBytes, m_fin>>
    /\ UNCHANGED <<wavFile, m_mutex, s_progress, prod, seekPc, hist>>
    /\ UNCHANGED <<m_mode, m_chNum, graph, m_state, tuneVars, m_msgQ, route, blk, actorPc, keysRead>>

\* the bit-depth switch, m_chNum = header.num_channels
GoBits ==
    /\ goPc = "bits"
    /\ IF BitsOk(wavFile.hdr)
       THEN m_chNum' = wavFile.hdr.num_channels /\ goPc' = "fifo"
       ELSE goPc' = "error" /\ UNCHANGED m_chNum
    /\ UNCHANGED <<wavVars, m_mode, graph, m_state, tuneVars, m_msgQ, route, blk, actorPc, keysRead, hist>>

\* lk.NewFIFO
GoNewFifo ==
    /\ goPc = "fifo"
    /\ \E ok \in BOOLEAN :
          IF ok THEN graph' = [graph EXCEPT !.fifo = FifoCap] /\ goPc' = "route"
          ELSE goPc' = "error" /\ UNCHANGED graph
    /\ UNCHANGED <<wavVars, m_mode, m_chNum, m_state, tuneVars, m_msgQ, route, blk, actorPc, keysRead, hist>>

\* lk.NewRoute
GoNewRoute ==
    /\ goPc = "route"
    /\ \E ok \in BOOLEAN :
          IF ok THEN graph' = [graph EXCEPT !.route = "live"] /\ goPc' = "build"
          ELSE goPc' = "error" /\ UNCHANGED graph
    /\ UNCHANGED <<wavVars, m_mode, m_chNum, m_state, tuneVars, m_msgQ, route, blk, actorPc, keysRead, hist>>

\* the SetParameter calls that follow a NewBlock
BlockParams(name, b) ==
    IF name = "gain"
    THEN PushGains(b, m_chNum, Gain(m_volL, m_volMaster, m_mute),
                               Gain(m_volR, m_volMaster, m_mute))
    ELSE IF name = "soundtouch" THEN [b EXCEPT !.pitch = m_pitch, !.tempo = m_tempo]
    ELSE b

\* Go after a NewBlock that returned null: DeleteRoute and return -1
BlockFailed(name) ==
    /\ graph' = [graph EXCEPT !.failed = name, !.route = "deleted"]
    /\ goPc' = "error"

\* m_route->NewBlock of every block but libblksoundtouch
GoNewBlock ==
    /\ goPc = "build"
    /\ GoStep.kind = "block"
    /\ GoStep.name # "soundtouch"
    /\ \E ok \in BOOLEAN :
          IF ok
          THEN /\ graph' = [graph EXCEPT !.blocks = @ \cup {GoStep.name}, !.step = @ + 1]
               /\ blk' = BlockParams(GoStep.name, blk)
               /\ goPc' = AfterStep
          ELSE BlockFailed(GoStep.name) /\ UNCHANGED blk
    /\ UNCHANGED <<wavVars, m_mode, m_chNum, m_state, tuneVars, m_msgQ, route, actorPc, keysRead, hist>>

\* m_blkSoundTouch: libblksoundtouch, or libblkpassthrough in its place
GoNewSoundTouch ==
    /\ goPc = "build"
    /\ GoStep.kind = "block"
    /\ GoStep.name = "soundtouch"
    /\ \E ok \in BOOLEAN, okPassthrough \in BOOLEAN :
          IF ok
          THEN /\ graph' = [graph EXCEPT !.blocks = @ \cup {"soundtouch"}, !.step = @ + 1]
               /\ blk' = BlockParams("soundtouch", blk)
               /\ goPc' = AfterStep
          ELSE IF okPassthrough
          THEN /\ graph' = [graph EXCEPT !.blocks = @ \cup {"soundtouch"}, !.step = @ + 1]
               /\ goPc' = AfterStep
               /\ UNCHANGED blk
          ELSE /\ graph' = [graph EXCEPT !.failed = "passthrough"]
               /\ goPc' = "error"
               /\ UNCHANGED blk
    /\ UNCHANGED <<wavVars, m_mode, m_chNum, m_state, tuneVars, m_msgQ, route, actorPc, keysRead, hist>>

\* m_route->NewLink
GoNewLink ==
    /\ goPc = "build"
    /\ GoStep.kind = "link"
    /\ \E ok \in BOOLEAN :
          IF ok
          THEN /\ graph' = [graph EXCEPT !.links = @ + 1, !.step = @ + 1]
               /\ goPc' = AfterStep
          ELSE /\ graph' = [graph EXCEPT !.route = "deleted", !.failed = "link"]
               /\ goPc' = "error"
    /\ UNCHANGED <<wavVars, m_mode, m_chNum, m_state, tuneVars, m_msgQ, route, blk, actorPc, keysRead, hist>>

\* std::thread t1(MessageHandler, this)
GoThread ==
    /\ goPc = "thread"
    /\ actorPc' = "recv"
    /\ goPc' = "start"
    /\ UNCHANGED <<wavVars, m_mode, m_chNum, graph, m_state, tuneVars, m_msgQ, route, blk, keysRead, hist>>

(***************************************************************************)
(* Player::Go from the creation of the actor thread on                     *)
(***************************************************************************)
TypedKeys == {"c", "z", "x", "d"}

AfterStartAlwaysKeys(mode) == "keys"

\* if (m_mode != NONINTERACTIVE) { the keyboard loop }
AfterStart(mode) == IF mode # NONINTERACTIVE THEN "keys" ELSE "join"

\* m_route->Start() returns 0
GoStart ==
    /\ Alive
    /\ goPc = "start"
    /\ Room(1)
    /\ route' = StartRoute(route)
    /\ m_msgQ' = StartQueue(route, m_msgQ)
    /\ goPc' = AfterStart(m_mode)
    /\ UNCHANGED <<wavVars, m_mode, m_chNum, graph, m_state, tuneVars, blk, actorPc, keysRead, hist>>

\* m_route->Start() < 0: DeleteRoute and return -1 with t1 still joinable
GoStartFails ==
    /\ Alive
    /\ goPc = "start"
    /\ goPc' = "abort"
    /\ graph' = [graph EXCEPT !.route = "deleted"]
    /\ UNCHANGED <<wavVars, m_mode, m_chNum, m_state, tuneVars, m_msgQ, route, blk, actorPc, keysRead, hist>>

\* one turn of the keyboard loop: getchar (a negative result becomes 'c'),
\* Consume, and the break after 'c'
GoKey ==
    /\ Alive
    /\ goPc = "keys"
    /\ keysRead < MaxKeys
    /\ Room(1)
    /\ \E got \in TypedKeys \cup {"EOF"} :
          LET key == IF got = "EOF" THEN "c" ELSE got
          IN /\ m_msgQ' = Append(m_msgQ, Msg("ON_KEY", key, "kbd"))
             /\ goPc' = IF key = "c" THEN "join" ELSE "keys"
    /\ keysRead' = keysRead + 1
    /\ UNCHANGED <<wavVars, m_mode, m_chNum, graph, m_state, tuneVars, route, blk, actorPc, hist>>

\* t1.join(); lk.DeleteRoute(m_route); return 0
GoJoin ==
    /\ Alive
    /\ goPc = "join"
    /\ actorPc = "exited"
    /\ goPc' = "done"
    /\ graph' = [graph EXCEPT !.route = "deleted"]
    /\ UNCHANGED <<wavVars, m_mode, m_chNum, m_state, tuneVars, m_msgQ, route, blk, actorPc, keysRead, hist>>

(***************************************************************************)
(* Spec: the session from the creation of the actor thread                 *)
(***************************************************************************)
\* the file played: stereo, 16 bit, 50 Hz (one sample per 20 ms frame)
PlayFile == [hdr |-> ValidHeader, pcm |-> PlayPcmBytes]

PlayerDefaults ==
    /\ m_chNum = 2
    /\ m_state = STOPPED
    /\ m_pitch = PitchOne
    /\ m_tempo = PitchOne
    /\ m_volL = VolOne
    /\ m_volR = VolOne
    /\ m_volMaster = VolOne
    /\ m_mute = FALSE
    /\ m_msgQ = <<>>
    /\ route = [state |-> "stopped", fading |-> FALSE, cb |-> "none"]
    /\ blk = [gain0 |-> Gain(VolOne, VolOne, FALSE), gain1 |-> Gain(VolOne, VolOne, FALSE),
              pitch |-> PitchOne, tempo |-> PitchOne]
    /\ graph = BuiltGraph(2, FALSE)
    /\ keysRead = 0

Init ==
    /\ WavOpened(PlayFile)
    /\ m_mode \in Modes
    /\ PlayerDefaults
    /\ actorPc = "recv"
    /\ goPc = "start"

ActorNext ==
    \/ ActorKeyExit
    \/ ActorPostExit
    \/ ActorKeySeek
    \/ SeekLock
    \/ SeekClear
    \/ SeekSeekg
    \/ ActorSeekReturn
    \/ ActorKeyPlayStop
    \/ ActorKeyTune
    \/ ActorOnStopped
    \/ ActorOnStarted
    \/ ActorOnExit

RouteNext ==
    \/ RouteProduce
    \/ ProduceLock
    \/ ProduceTell
    \/ ProduceRead
    \/ RouteProduceReturn
    \/ RouteFadeOutDone
    \/ RouteOnStoppedSecond

Next ==
    \/ GoStart
    \/ GoStartFails
    \/ GoKey
    \/ GoJoin
    \/ ActorNext
    \/ RouteNext
    \/ RouteError

Spec == Init /\ [][Next]_vars

\* every thread that can take a step eventually takes one; nobody has to type,
\* and no stage has to fail
FairSpec ==
    /\ Spec
    /\ WF_vars(GoStart \/ GoStartFails)
    /\ WF_vars(GoJoin)
    /\ WF_vars(ActorNext)
    /\ WF_vars(RouteNext)

(***************************************************************************)
(* SpecWav: the steps and the specification                                *)
(***************************************************************************)
WavInit ==
    /\ \E f \in WavFiles : OpenOk(f) /\ WavOpened(f)
    /\ m_mode = NORMAL
    /\ PlayerDefaults
    /\ actorPc = "none"
    /\ goPc = "none"

WavProduce == \E n \in 0..MaxSamples : Alive /\ ProduceCall(n)

WavProduceReturn ==
    /\ Alive
    /\ prod.pc = "ret"
    /\ prod' = [prod EXCEPT !.pc = "idle"]
    /\ UNCHANGED <<wavFile, m_sampleSize, m_pcmBytes, m_fin, m_mutex, s_progress, seekPc, hist, playerVars>>

WavSeekToBegin ==
    /\ Alive
    /\ seekPc \in {"none", "done"}
    /\ seekPc' = "lock"
    /\ UNCHANGED <<wavFile, m_sampleSize, m_pcmBytes, m_fin, m_mutex, s_progress, prod, hist, playerVars>>

WavNext ==
    \/ WavProduce
    \/ ProduceLock
    \/ ProduceTell
    \/ ProduceRead
    \/ WavProduceReturn
    \/ WavSeekToBegin
    \/ SeekLock
    \/ SeekClear
    \/ SeekSeekg

SpecWav == WavInit /\ [][WavNext]_vars

(***************************************************************************)
(* SpecKeys: the playback state under key events.  The session starts from *)
(* the options of the command line (Go's getopt loop) and the initial      *)
(* pushes of the graph construction; each step is MsgHdl handling one      *)
(* ON_KEY message.  Only the playback state and the stage parameters are   *)
(* followed here: the route is not run, and what 'c', 'z' and 'x' do to    *)
(* the route is Spec's.                                                    *)
(***************************************************************************)
\* case 'v' of the getopt loop, on the double atof returned
OptVolume(v) ==
    IF FLt(v, 0) THEN [ok |-> FALSE, master |-> v, mute |-> FALSE]
    ELSE IF FEq(v, 0) THEN [ok |-> TRUE, master |-> v, mute |-> TRUE]
    ELSE IF FGt(v, VolOne) THEN [ok |-> TRUE, master |-> VolOne, mute |-> FALSE]
    ELSE [ok |-> TRUE, master |-> v, mute |-> FALSE]

\* case 'p' of the getopt loop
OptPitch(p) ==
    IF FEq(p, 0) THEN [ok |-> FALSE, pitch |-> p]
    ELSE IF FGt(p, PITCH_MAX) THEN [ok |-> TRUE, pitch |-> PITCH_MAX]
    ELSE IF FLt(p, PITCH_MIN) THEN [ok |-> TRUE, pitch |-> PITCH_MIN]
    ELSE [ok |-> TRUE, pitch |-> p]

\* case 't' of the getopt loop
OptTempo(p) ==
    IF FEq(p, 0) THEN [ok |-> FALSE, tempo |-> p]
    ELSE IF FGt(p, TEMPO_MAX) THEN [ok |-> TRUE, tempo |-> TEMPO_MAX]
    ELSE IF FLt(p, TEMPO_MIN) THEN [ok |-> TRUE, tempo |-> TEMPO_MIN]
    ELSE [ok |-> TRUE, tempo |-> p]

\* the values of -v, -p and -t on the command line (an option left out is the
\* option given as 1.0): the defaults, the boundaries, values beyond them,
\* values the loop rejects, and "nan"
StartOptions ==
    { [v |-> VolOne, p |-> PitchOne, t |-> PitchOne],
      [v |-> 0, p |-> PITCH_MAX, t |-> TEMPO_MAX],
      [v |-> 1, p |-> 2 * PITCH_MAX, t |-> 2 * TEMPO_MAX],
      [v |-> VolOne + 50, p |-> -PitchOne, t |-> 1],
      [v |-> -50, p |-> PitchOne, t |-> PitchOne],
      [v |-> VolOne, p |-> 0, t |-> PitchOne],
      [v |-> VolOne, p |-> PitchOne, t |-> 0],
      [v |-> NaN, p |-> NaN, t |-> NaN] }

\* the getopt loop returns -1 at the first option it rejects
OptionsOk(o) == OptVolume(o.v).ok /\ OptPitch(o.p).ok /\ OptTempo(o.t).ok

KeysInit ==
    /\ WavFields(PlayFile)
    /\ m_mode = NORMAL
    /\ m_chNum \in {1, 2}
    /\ m_state = STOPPED
    /\ \E o \in StartOptions :
          /\ hist = [HistInit EXCEPT !.opt = o]
          /\ m_volMaster = OptVolume(o.v).master
          /\ m_mute = OptVolume(o.v).mute
          /\ m_pitch = OptPitch(o.p).pitch
          /\ m_tempo = OptTempo(o.t).tempo
          /\ goPc = IF OptionsOk(o) THEN "keys" ELSE "error"
          /\ graph = IF OptionsOk(o) THEN BuiltGraph(m_chNum, FALSE) ELSE NoGraph(FALSE)
          /\ actorPc = IF OptionsOk(o) THEN "recv" ELSE "none"
    /\ m_volL = VolOne
    /\ m_volR = VolOne
    /\ blk = [gain0 |-> Gain(m_volL, m_volMaster, m_mute),
              gain1 |-> IF m_chNum = 2 THEN Gain(m_volR, m_volMaster, m_mute) ELSE 0,
              pitch |-> m_pitch, tempo |-> m_tempo]
    /\ m_msgQ = <<>>
    /\ route = [state |-> "stopped", fading |-> FALSE, cb |-> "none"]
    /\ keysRead = 0

\* the 'e' keys handled in a row since the balance was (1.0, 1.0)
RunAfter(key) ==
    IF key # "e" THEN 0
    ELSE IF m_volL = VolOne /\ m_volR = VolOne THEN 1
    ELSE IF hist.run = 0 THEN 0
    ELSE Min(hist.run + 1, RunCap)

AdjustKeys == {"r", "f", "v", "t", "g", "b", "a", "s"}

\* MsgHdl on one ON_KEY message
KeyPress(key) ==
    /\ goPc = "keys"
    /\ LET t == OnTuneKey(key, m_chNum, Tune)
       IN /\ SetTune(t)
          /\ hist' = [hist EXCEPT !.key = key, !.pushed = t.pushed,
                                  !.run = RunAfter(key),
                                  !.adjusts = IF key \in AdjustKeys THEN @ + 1 ELSE @]
    /\ UNCHANGED <<wavVars, m_mode, m_chNum, graph, m_state, m_msgQ, route, actorPc, goPc, keysRead>>

KeyBalance == \E key \in {"e", "q", "w"} : KeyPress(key)

KeyMute == KeyPress("d")

KeyAdjust == hist.adjusts < MaxAdjust /\ \E key \in AdjustKeys : KeyPress(key)

KeyOther == \E key \in TransportKeys : KeyPress(key)

KeysNext == KeyBalance \/ KeyMute \/ KeyAdjust \/ KeyOther

SpecKeys == KeysInit /\ [][KeysNext]_vars

(***************************************************************************)
(* SpecGo: Go from Open to the first Start, on any header.                 *)
(***************************************************************************)
\* headers that break each test of Open and of the bit-depth switch, and those
\* that break none
GoHeaders ==
    { [riff_id |-> a, riff_fmt |-> b, audio_format |-> c, data_id |-> d,
       num_channels |-> n, bits_per_sample |-> w, sample_rate |-> r] :
        a \in {ID_RIFF, 0}, b \in {ID_WAVE, 0}, c \in {FORMAT_PCM, 3}, d \in {ID_DATA, 0},
        n \in {0, 1, 2, 3}, w \in {8, 16, 24, 32}, r \in {0, 50} }

GoInit ==
    /\ \E h \in GoHeaders : wavFile = [hdr |-> h, pcm |-> PlayPcmBytes]
    /\ m_sampleSize = 0
    /\ m_pcmBytes = 0
    /\ m_fin = [pos |-> 0, eofbit |-> FALSE, failbit |-> FALSE]
    /\ m_mutex = "none"
    /\ s_progress = 0
    /\ prod = ProdIdle
    /\ seekPc = "none"
    /\ hist = HistInit
    /\ m_mode \in Modes
    /\ m_chNum = 0
    /\ m_state = STOPPED
    /\ m_pitch = PitchOne
    /\ m_tempo = PitchOne
    /\ m_volL = VolOne
    /\ m_volR = VolOne
    /\ m_volMaster = VolOne
    /\ m_mute = FALSE
    /\ m_msgQ = <<>>
    /\ route = [state |-> "stopped", fading |-> FALSE, cb |-> "none"]
    /\ \E saving \in BOOLEAN : graph = NoGraph(saving)
    /\ blk = [gain0 |-> 0, gain1 |-> 0, pitch |-> 0, tempo |-> 0]
    /\ actorPc = "none"
    /\ goPc = "open"
    /\ keysRead = 0

GoNext ==
    \/ GoOpen
    \/ GoBits
    \/ GoNewFifo
    \/ GoNewRoute
    \/ GoNewBlock
    \/ GoNewSoundTouch
    \/ GoNewLink
    \/ GoThread
    \/ GoStart
    \/ GoStartFails

SpecGo == GoInit /\ [][GoNext]_vars

(***************************************************************************)
(* SpecQueue: the session with a FIFO of any capacity up to MaxCap.  Every *)
(* Consume(.., -1) waits for room, so MsgHdl is cut at the Consume calls   *)
(* made on the actor thread: between its Produce (which frees a slot) and  *)
(* the Consume of a callback, the other threads can write to the FIFO.     *)
(***************************************************************************)
\* case 'c' up to the callback inside m_route->Stop()
QueueKeyExit ==
    /\ ActorHas("ON_KEY")
    /\ Head(m_msgQ).key = "c"
    /\ m_msgQ' = Tail(m_msgQ)
    /\ \/ /\ route.state = "running"
          /\ prod.pc = "idle"
          /\ route' = [route EXCEPT !.state = "stopped", !.fading = FALSE]
          /\ actorPc' = "in_stop"
       \/ /\ route.state = "stopped"
          /\ actorPc' \in {"in_stop", "post_exit"}
          /\ UNCHANGED route
    /\ hist' = [hist EXCEPT !.exitStop = TRUE,
                            !.exitRunning = @ \/ route.state = "running",
                            !.synthExit = @ \/ Head(m_msgQ).from # "kbd"]
    /\ UNCHANGED <<wavVars, m_mode, m_chNum, graph, m_state, tuneVars, blk, goPc, keysRead>>

\* Player::OnStopped(USER_STOP) on the actor thread: m_msgQ->Consume(msg, 1, -1)
QueueExitOnStopped ==
    /\ Alive
    /\ actorPc = "in_stop"
    /\ Room(1)
    /\ m_msgQ' = OnStoppedFirst(m_msgQ, "caller")
    /\ actorPc' = "post_exit"
    /\ UNCHANGED <<wavVars, m_mode, m_chNum, graph, m_state, tuneVars, route, blk, goPc, keysRead, hist>>

\* case 'x' up to the callback inside m_route->Start()
QueueKeyPlayStop ==
    /\ ActorHas("ON_KEY")
    /\ Head(m_msgQ).key = "x"
    /\ m_msgQ' = Tail(m_msgQ)
    /\ IF m_state = STOPPED
       THEN /\ route' = StartRoute(route)
            /\ actorPc' = IF route.state = "stopped" THEN "in_start" ELSE "recv"
            /\ hist' = [hist EXCEPT !.startReq = hist.tracked,
                                    !.starts = Min(@ + 1, 2),
                                    !.lateStart = @ \/ hist.exitStop,
                                    !.synthStart = @ \/ Head(m_msgQ).from # "kbd",
                                    !.userPlay = @ \/ (hist.tracked /\ Head(m_msgQ).from = "kbd")]
       ELSE /\ route' = [route EXCEPT !.fading = (route.state = "running")]
            /\ hist' = [hist EXCEPT !.userPlay = @ \/ (hist.tracked /\ Head(m_msgQ).from = "kbd")]
            /\ UNCHANGED actorPc
    /\ UNCHANGED <<wavVars, m_mode, m_chNum, graph, m_state, tuneVars, blk, goPc, keysRead>>

\* Player::OnStarted on the actor thread: m_msgQ->Consume(&msg, 1, -1)
QueuePlayOnStarted ==
    /\ Alive
    /\ actorPc = "in_start"
    /\ Room(1)
    /\ m_msgQ' = OnStarted(m_msgQ)
    /\ actorPc' = "recv"
    /\ UNCHANGED <<wavVars, m_mode, m_chNum, graph, m_state, tuneVars, route, blk, goPc, keysRead, hist>>

QueueInit ==
    /\ WavOpened(PlayFile)
    /\ m_mode \in Modes
    /\ m_chNum = 2
    /\ m_state = STOPPED
    /\ m_pitch = PitchOne
    /\ m_tempo = PitchOne
    /\ m_volL = VolOne
    /\ m_volR = VolOne
    /\ m_volMaster = VolOne
    /\ m_mute = FALSE
    /\ m_msgQ = <<>>
    /\ route = [state |-> "stopped", fading |-> FALSE, cb |-> "none"]
    /\ blk = [gain0 |-> Gain(VolOne, VolOne, FALSE), gain1 |-> Gain(VolOne, VolOne, FALSE),
              pitch |-> PitchOne, tempo |-> PitchOne]
    /\ \E cap \in 1..MaxCap : graph = [BuiltGraph(2, FALSE) EXCEPT !.fifo = cap]
    /\ keysRead = 0
    /\ actorPc = "recv"
    /\ goPc = "start"

QueueActorNext ==
    \/ QueueKeyExit
    \/ QueueExitOnStopped
    \/ ActorPostExit
    \/ ActorKeySeek
    \/ SeekLock
    \/ SeekClear
    \/ SeekSeekg
    \/ ActorSeekReturn
    \/ QueueKeyPlayStop
    \/ QueuePlayOnStarted
    \/ ActorKeyTune
    \/ ActorOnStopped
    \/ ActorOnStarted
    \/ ActorOnExit

QueueNext ==
    \/ GoStart
    \/ GoStartFails
    \/ GoKey
    \/ GoJoin
    \/ QueueActorNext
    \/ RouteNext
    \/ RouteError

SpecQueue == QueueInit /\ [][QueueNext]_vars

(***************************************************************************)
(* Properties of the WavFile (checked under SpecWav)                       *)
(***************************************************************************)
\* the block a Produce of requestBytes must hand back when its tellg saw cur:
\* the payload bytes from cur on, zeros past the end of the payload
BlockFrom(cur, requestBytes) ==
    [i \in 1..requestBytes |->
        IF cur - HeaderSize + i <= m_pcmBytes THEN PcmByte(cur - HeaderSize + i) ELSE 0]

\* unread payload bytes as the Produce call found them (tellg is -1 once the
\* stream has failed at the end of the file)
Remaining(cur) == IF cur = -1 THEN 0 ELSE FileLen(wavFile) - cur

\* C4: Produce and SeekToBegin exclude each other on the cursor: the actor is
\* never between SeekToBegin's clear and seekg while the route thread is between
\* Produce's tellg and its read, and every block Produce returns holds the
\* payload bytes that start at the cursor its tellg observed.
C4_ProduceSeekExclusive ==
    /\ ~(prod.pc \in {"tell", "read"} /\ seekPc \in {"clear", "seekg"})
    /\ (prod.pc = "ret" /\ prod.ret # E_EOF) =>
           prod.data = BlockFrom(prod.cur, RequestBytes(m_sampleSize, prod.samples))

\* a Produce that started mid-stream has returned a block while SeekToBegin
\* was waiting for the mutex
C4_Witness ==
    /\ prod.pc = "ret"
    /\ prod.ret = prod.samples
    /\ prod.cur > HeaderSize
    /\ Len(prod.data) > 0
    /\ seekPc = "lock"

\* C5: for every file Open accepts and every block size n, a Produce(n) that
\* finds an unread payload byte returns n samples, zero-filled past the end of
\* the payload, and a Produce that finds none returns end-of-stream.
C5_FullBlocksThenEof ==
    prod.pc = "ret" =>
        IF Remaining(prod.cur) > 0
        THEN /\ prod.ret = prod.samples
             /\ prod.data = BlockFrom(prod.cur, RequestBytes(m_sampleSize, prod.samples))
        ELSE prod.ret = E_EOF

\* the same, for requests of at least one byte (not a claim: what the code does)
FullBlocksThenEofNonEmpty ==
    (prod.pc = "ret" /\ RequestBytes(m_sampleSize, prod.samples) > 0) =>
        IF Remaining(prod.cur) > 0
        THEN /\ prod.ret = prod.samples
             /\ prod.data = BlockFrom(prod.cur, RequestBytes(m_sampleSize, prod.samples))
        ELSE prod.ret = E_EOF

\* every sequence of at most two block sizes
BlockSizeSeqs ==
    {<<>>} \cup { <<a>> : a \in 0..MaxSamples }
           \cup { <<a, b>> : a \in 0..MaxSamples, b \in 0..MaxSamples }

RECURSIVE ProduceSeq(_, _)
\* the results and blocks of Produce calls of sizes ns, made in a row from stream s
ProduceSeq(s, ns) ==
    IF ns = <<>> THEN <<>>
    ELSE LET r == ProduceOnce(s, m_sampleSize, Head(ns), FileLen(wavFile))
         IN <<[ret |-> r.ret, data |-> r.data]>> \o ProduceSeq(r.fin, Tail(ns))

\* C6: whenever SeekToBegin completes, the Produce calls that follow return
\* what the same calls return right after a fresh Open of the same file.
C6_SeekLikeFreshOpen ==
    [][ (seekPc = "seekg" /\ seekPc' = "done") =>
            \A ns \in BlockSizeSeqs :
                ProduceSeq(m_fin', ns) = ProduceSeq(OpenStream(wavFile), ns) ]_vars

\* SeekToBegin has completed after a Produce reported end-of-stream, and the
\* stream is where Open left it
C6_Witness ==
    /\ seekPc = "done"
    /\ prod.pc = "idle"
    /\ prod.ret = E_EOF
    /\ m_pcmBytes > 0
    /\ m_fin = OpenStream(wavFile)

\* C7: the stored progress stays in [0, 10000], is 10000 after a Produce that
\* reports end-of-stream, never decreases unless a SeekToBegin has completed
\* since the last store, and Produce computes it for every payload length.
C7_ProgressMonotone ==
    /\ [](/\ prod.pc # "sigfpe"
          /\ s_progress \in 0..ProgressFull
          /\ (prod.pc = "ret" /\ prod.ret = E_EOF) => s_progress = ProgressFull)
    /\ [][ ~hist.rewound => s_progress' >= s_progress ]_vars

\* the same for a payload of at least one byte (not a claim: what the code does)
ProgressMonotoneNonEmpty ==
    /\ [](m_pcmBytes > 0 =>
            /\ prod.pc # "sigfpe"
            /\ s_progress \in 0..ProgressFull
            /\ (prod.pc = "ret" /\ prod.ret = E_EOF) => s_progress = ProgressFull)
    /\ [][ (m_pcmBytes > 0 /\ ~hist.rewound) => s_progress' >= s_progress ]_vars


(***************************************************************************)
(* Properties of the session (checked under Spec and FairSpec)             *)
(***************************************************************************)
\* C1: when the actor loop has ended after an exit request the engine is
\* quiescent: the actor's last lifecycle event was the stop confirmation, no
\* Start has been issued to the route after the exit's Stop, and the route is
\* stopped (as it is when Go deletes it).
C1_ExitQuiescent ==
    actorPc = "exited" =>
        /\ m_state = STOPPED
        /\ ~hist.lateStart
        /\ route.state = "stopped"

\* the same outside Repeat mode
ExitQuiescentNoRepeat == m_mode # REPEAT => C1_ExitQuiescent

PlaybackState == <<m_pitch, m_tempo, m_volL, m_volR, m_volMaster, m_mute, m_state>>

\* a step in which the actor takes the head of the queue and writes no message
ActorDequeues ==
    /\ actorPc = "recv"
    /\ m_msgQ # <<>>
    /\ m_msgQ' = Tail(m_msgQ)

\* C2: every write to the playback state (pitch, tempo, the three volumes,
\* mute, transport state) is a step of the actor processing a dequeued event;
\* no step of a callback or of the keyboard loop changes any of the fields.
C2_OnlyActorWrites == [][PlaybackState' # PlaybackState => ActorDequeues]_vars

\* the actor has muted on a typed key and followed ON_STARTED while a message
\* written by the route thread waits in the queue
C2_Witness ==
    /\ m_mute
    /\ m_state = PLAYING
    /\ \E i \in 1..Len(m_msgQ) : m_msgQ[i].from = "route"

\* C3: the transport state changes only in a step where the actor dequeues a
\* lifecycle event: to STOPPED on ON_STOPPED, to PLAYING on ON_STARTED; a
\* step that handles a key event, or any other step, leaves it unchanged.
C3_TransportOnLifecycle ==
    [][m_state' # m_state =>
         /\ ActorDequeues
         /\ \/ Head(m_msgQ).id = "ON_STOPPED" /\ m_state' = STOPPED
            \/ Head(m_msgQ).id = "ON_STARTED" /\ m_state' = PLAYING]_vars

\* a stop was requested while PLAYING (the fade-out runs), the route has not
\* confirmed yet and the state is still PLAYING
C3_Witness ==
    /\ m_state = PLAYING
    /\ route.state = "running"
    /\ route.fading

SynthesizedKeys == {m_msgQ[i].key : i \in {j \in 1..Len(m_msgQ) :
                        m_msgQ[j].id = "ON_KEY" /\ m_msgQ[j].from # "kbd"}}

\* C8: in Normal mode the only synthesized key is 'z', the actor never calls
\* Start and never begins an exit while handling a key nobody typed, after
\* a stop for end of stream the actor handles ON_STOPPED, and from then on the
\* transport state is STOPPED until the actor handles a typed Play/Stop key.
C8_NormalStaysStopped ==
    /\ [](m_mode = NORMAL =>
             /\ SynthesizedKeys \subseteq {"z"}
             /\ ~hist.synthStart
             /\ ~hist.synthExit
             /\ (hist.tracked /\ hist.sawStopped /\ ~hist.userPlay) => m_state = STOPPED)
    /\ ((m_mode = NORMAL /\ hist.tracked) ~> hist.sawStopped)

\* Normal mode after end of stream: ON_STOPPED and the synthesized 'z' have
\* been handled, the file is rewound, the transport is STOPPED
C8_Witness ==
    /\ m_mode = NORMAL
    /\ hist.tracked
    /\ hist.sawStopped
    /\ hist.rewound
    /\ m_state = STOPPED
    /\ route = [state |-> "stopped", fading |-> FALSE, cb |-> "none"]
    /\ m_msgQ = <<>>
    /\ actorPc = "recv"

C10_NonInteractiveEnds ==
    /\ [](m_mode = NONINTERACTIVE =>
             /\ keysRead = 0
             /\ goPc # "keys"
             /\ \A i \in 1..Len(m_msgQ) : m_msgQ[i].from # "kbd")
    /\ ((m_mode = NONINTERACTIVE /\ hist.tracked) ~> (actorPc = "exited" /\ goPc = "done"))

\* NonInteractive mode: the stream ended, the actor loop ended, Go returned
C10_Witness ==
    /\ m_mode = NONINTERACTIVE
    /\ hist.tracked
    /\ keysRead = 0
    /\ actorPc = "exited"
    /\ goPc = "done"

\* C11: an OnStopped whose reason is an error drives the actor as one whose
\* reason is USER_STOP does: the callback writes ON_STOPPED and nothing else
\* (no 'z', 'x' or 'c' is synthesized when it completes).
C11_ErrorLikeUserStop ==
    [][(route.cb = "error" /\ route.cb' = "none") => m_msgQ' = m_msgQ]_vars

(***************************************************************************)
(* Properties of the playback state (checked under SpecKeys)               *)
(***************************************************************************)
\* the step is MsgHdl handling key
Handles(key) == hist'.key = key

\* C12: for a stereo stream, after any sequence of keys at least one of
\* m_volL and m_volR is 1.0.
C12_OneSideFull ==
    (goPc = "keys" /\ m_chNum = 2) => (FEq(m_volL, VolOne) \/ FEq(m_volR, VolOne))

\* the balance was moved to the left, muted, and a volume key was handled
C12_Witness ==
    /\ m_chNum = 2
    /\ hist.key = "q"
    /\ m_volR < VolOne /\ m_volR > 0
    /\ m_mute
    /\ hist.adjusts > 0

\* C13: after the initial push and after every key, the gain last pushed for
\* each channel of the stream is m_vol? * m_volMaster * (m_mute ? 0 : 1) of the
\* stored state.
C13_PushedGainIsStored ==
    goPc = "keys" =>
        /\ blk.gain0 = Gain(m_volL, m_volMaster, m_mute)
        /\ m_chNum = 2 => blk.gain1 = Gain(m_volR, m_volMaster, m_mute)

\* started with -v 0, the balance moved right, then a volume-up unmuted
C13_Witness ==
    /\ goPc = "keys"
    /\ m_chNum = 2
    /\ hist.key = "s"
    /\ m_volMaster = 1
    /\ ~m_mute
    /\ m_volL < VolOne

\* C14: a mute key flips m_mute and leaves m_volL, m_volR, m_volMaster,
\* m_pitch, m_tempo and m_state alone; two mute keys in a row restore m_mute
\* and push the gains that were in effect before the first.
C14_MuteToggle ==
    /\ [][Handles("d") =>
            /\ m_mute' = ~m_mute
            /\ UNCHANGED <<m_volL, m_volR, m_volMaster, m_pitch, m_tempo, m_state>>]_vars
    /\ [](goPc = "keys" =>
            LET t1 == OnTuneKey("d", m_chNum, Tune)
                t2 == OnTuneKey("d", m_chNum, t1)
            IN /\ t2.pushed
               /\ t2.mute = m_mute
               /\ t2.blk = blk)

\* a mute key has unmuted a session that started unmuted at full volume
C14_Witness ==
    /\ goPc = "keys"
    /\ hist.key = "d"
    /\ hist.pushed
    /\ ~m_mute
    /\ m_volMaster = VolOne
    /\ hist.adjusts = 0
    /\ m_volL < VolOne

\* C15: pitch-up at PITCH_MAX, pitch-down at PITCH_MIN, tempo-up at TEMPO_MAX,
\* tempo-down at TEMPO_MIN, volume-up at 1.0 and volume-down at 0.0 change
\* nothing of the playback state and push nothing.
AtBoundary(key) ==
    \/ key = "r" /\ m_pitch = PITCH_MAX
    \/ key = "f" /\ m_pitch = PITCH_MIN
    \/ key = "t" /\ m_tempo = TEMPO_MAX
    \/ key = "g" /\ m_tempo = TEMPO_MIN
    \/ key = "s" /\ m_volMaster = VolOne
    \/ key = "a" /\ m_volMaster = 0

C15_BoundaryIdempotent ==
    [][\A key \in AdjustKeys :
          (Handles(key) /\ AtBoundary(key)) =>
              /\ UNCHANGED <<tuneVars, blk, m_state, m_chNum, route, m_msgQ>>
              /\ ~hist'.pushed]_vars

\* a volume-down was handled at master volume 0.0
C15_Witness ==
    /\ goPc = "keys"
    /\ hist.key = "a"
    /\ m_volMaster = 0
    /\ ~hist.pushed

\* C16: once the options are accepted, and after any sequence of keys, m_pitch
\* is in [PITCH_MIN, PITCH_MAX], m_tempo in [TEMPO_MIN, TEMPO_MAX], and m_volL,
\* m_volR and m_volMaster in [0.0, 1.0].
InRange(x, lo, hi) == FLe(lo, x) /\ FLe(x, hi)

C16_TuneInRange ==
    goPc = "keys" =>
        /\ InRange(m_pitch, PITCH_MIN, PITCH_MAX)
        /\ InRange(m_tempo, TEMPO_MIN, TEMPO_MAX)
        /\ InRange(m_volL, 0, VolOne)
        /\ InRange(m_volR, 0, VolOne)
        /\ InRange(m_volMaster, 0, VolOne)

\* C17: on a stereo stream, 100 'e' keys in a row from balance (1.0, 1.0)
\* leave m_volL at 0.0 and m_volR at 1.0, and each further 'e' changes nothing
\* and pushes nothing; an 'e' raises m_volR by 0.01 when it is below 1.0 and
\* otherwise lowers m_volL by 0.01 down to 0.0 ('q' is the mirror image).
BalanceStep(own, own2, other, other2) ==
    IF own < VolOne THEN own2 = own + 1 /\ other2 = other
    ELSE IF other > 0 THEN other2 = other - 1 /\ own2 = own
    ELSE own2 = own /\ other2 = other

C17_BalanceRight ==
    /\ []((m_chNum = 2 /\ hist.run >= 100) => (m_volL = 0 /\ m_volR = VolOne))
    /\ [][(m_chNum = 2 /\ hist.run >= 100 /\ Handles("e")) =>
              (UNCHANGED <<tuneVars, blk>> /\ ~hist'.pushed)]_vars
    /\ [][(m_chNum = 2 /\ Handles("e")) => BalanceStep(m_volR, m_volR', m_volL, m_volL')]_vars
    /\ [][(m_chNum = 2 /\ Handles("q")) => BalanceStep(m_volL, m_volL', m_volR, m_volR')]_vars

\* more than 100 'e' keys in a row have been handled
C17_Witness ==
    /\ m_chNum = 2
    /\ hist.run = RunCap
    /\ hist.key = "e"
    /\ m_volL = 0

(***************************************************************************)
(* Properties of the graph construction (checked under SpecGo)             *)
(***************************************************************************)
\* nothing of the session exists: no FIFO, no route, no block, no link, no
\* actor thread, and the route has not been started
NothingCreated ==
    /\ graph.fifo = 0
    /\ graph.route = "none"
    /\ graph.blocks = {}
    /\ graph.links = 0
    /\ actorPc = "none"
    /\ route.state = "stopped"
    /\ m_msgQ = <<>>

\* C18: when a NewBlock or a NewLink has failed (the NewBlock of the
\* pass-through substitute included), Go has stopped and returned an error, the
\* route has been deleted, and the route was never started.
C18_FailureDeletesRoute ==
    graph.failed # "" =>
        /\ goPc = "error"
        /\ graph.route = "deleted"
        /\ route.state = "stopped"
        /\ actorPc = "none"

\* C19: Go gets past Open and the bit-depth check only with a header that has
\* the RIFF and WAVE magic values, PCM encoding, the data tag, 1 or 2 channels,
\* 16, 24 or 32 bits per sample and a sample rate above 0; with any other
\* header nothing is created.
HeaderValid(h) ==
    /\ h.riff_id = ID_RIFF
    /\ h.riff_fmt = ID_WAVE
    /\ h.audio_format = FORMAT_PCM
    /\ h.data_id = ID_DATA
    /\ h.num_channels \in {1, 2}
    /\ h.bits_per_sample \in {16, 24, 32}
    /\ h.sample_rate > 0

C19_OnlyValidHeaders ==
    ~HeaderValid(wavFile.hdr) => (goPc \in {"open", "bits", "error"} /\ NothingCreated)

\* C20: with a wrong RIFF or WAVE magic value Open fails and Go returns an
\* error with nothing created.
WrongMagic(h) == h.riff_id # ID_RIFF \/ h.riff_fmt # ID_WAVE

C20_WrongMagicRejected ==
    WrongMagic(wavFile.hdr) => (goPc \in {"open", "error"} /\ NothingCreated)

\* Go has returned the error of Open on a header whose only fault is the WAVE
\* magic value
C20_Witness ==
    /\ wavFile.hdr.riff_fmt # ID_WAVE
    /\ HeaderValid([wavFile.hdr EXCEPT !.riff_fmt = ID_WAVE])
    /\ goPc = "error"
    /\ NothingCreated

\* C21: at startup a -p or -t value that is zero or negative makes Go return an
\* error with no graph built; with any other values of -v, -p and -t the
\* session goes on with m_volMaster, m_pitch and m_tempo clamped into their
\* ranges.
C21_StartupOptions ==
    hist.key = "" =>
        IF FLe(hist.opt.p, 0) \/ FLe(hist.opt.t, 0)
        THEN goPc = "error" /\ graph = NoGraph(FALSE) /\ actorPc = "none"
        ELSE /\ goPc = "keys"
             /\ InRange(m_volMaster, 0, VolOne)
             /\ InRange(m_pitch, PITCH_MIN, PITCH_MAX)
             /\ InRange(m_tempo, TEMPO_MIN, TEMPO_MAX)

\* the message at position i was written by OnStopped's second Consume
Synthesized(i, key) ==
    /\ i <= Len(m_msgQ)
    /\ m_msgQ[i].id = "ON_KEY"
    /\ m_msgQ[i].from = "route"
    /\ m_msgQ[i].key = key

\* in this step the actor handles a synthesized 'x' and its Start starts the route
SynthesizedPlayStarts ==
    /\ actorPc = "recv"
    /\ Synthesized(1, "x")
    /\ m_state = STOPPED
    /\ route.state = "stopped"
    /\ route'.state = "running"

\* C22: when every stop of the route is one for end of stream, the actor gets
\* ON_STOPPED, then the synthesized 'z', then the follow-up of the mode ('x' in
\* REPEAT, 'c' in NONINTERACTIVE, none in NORMAL); so when the Start made for
\* the synthesized 'x' starts the route, the file is positioned at the start of
\* the payload.
C22_EosOrder ==
    /\ [](~hist.otherStop => hist.owed >= 0)
    /\ [](\A i \in 1..Len(m_msgQ) :
             Synthesized(i, "z") =>
                 /\ m_mode = REPEAT => Synthesized(i + 1, "x")
                 /\ m_mode = NONINTERACTIVE => Synthesized(i + 1, "c")
                 /\ m_mode = NORMAL => ~(Synthesized(i + 1, "x") \/ Synthesized(i + 1, "c")))
    /\ [][(~hist.otherStop /\ SynthesizedPlayStarts) =>
              (Tellg(m_fin) = HeaderSize /\ StreamGood(m_fin))]_vars

StopMessage(i) == m_msgQ[i].id = "ON_STOPPED" /\ m_msgQ[i].from = "caller"

\* C23: when the actor handles 'c' while the route runs, the ON_STOPPED of the
\* Stop is in the queue when the actor posts EXIT and ahead of it afterwards;
\* the actor has handled it, and m_state is STOPPED, when it leaves its loop;
\* the loop ends only by taking EXIT from the head of the queue, and the queue
\* only ever loses its head, so what was queued before EXIT was handled.
C23_StopBeforeExit ==
    /\ [](hist.exitRunning /\ actorPc = "post_exit" =>
              \E i \in 1..Len(m_msgQ) : StopMessage(i))
    /\ [](hist.exitRunning =>
              \A i, j \in 1..Len(m_msgQ) :
                  (m_msgQ[i].id = "EXIT" /\ StopMessage(j)) => j < i)
    /\ [](hist.exitRunning /\ actorPc = "exited" =>
              hist.exitAcked /\ m_state = STOPPED)
    /\ [][actorPc' # actorPc /\ actorPc' = "exited" =>
              m_msgQ # <<>> /\ Head(m_msgQ).id = "EXIT" /\ m_msgQ' = Tail(m_msgQ)]_vars
    /\ [][\/ Len(m_msgQ') >= Len(m_msgQ) /\ SubSeq(m_msgQ', 1, Len(m_msgQ)) = m_msgQ
          \/ m_msgQ # <<>> /\ Len(m_msgQ') >= Len(m_msgQ) - 1
                           /\ SubSeq(m_msgQ', 1, Len(m_msgQ) - 1) = Tail(m_msgQ)]_vars

C23_Witness ==
    /\ hist.exitRunning
    /\ hist.exitAcked
    /\ actorPc = "exited"
    /\ m_state = STOPPED

\* C24: whenever Go has returned an error, the actor thread was never created
\* and the route was never started: no thread of the session is running.
C24_ErrorsBeforeThreads ==
    goPc \in {"error", "abort"} => (actorPc = "none" /\ route.state # "running")

\* C25: no playback-state field and no progress value is open to two threads at
\* once.  ProduceTell is the route thread's RefreshDisplay(progress) inside
\* Produce: it reads m_volL, m_volR, m_volMaster, m_mute, m_pitch, m_tempo and
\* m_state and writes s_progress.  It is never enabled together with a step of
\* the actor that writes one of those fields (a tuning key, ON_STOPPED,
\* ON_STARTED) or that reads s_progress (RefreshDisplay(-1) after ON_STOPPED
\* and ON_STARTED).
C25_NoUnorderedAccess ==
    /\ ~(ENABLED ProduceTell /\ ENABLED ActorKeyTune)
    /\ ~(ENABLED ProduceTell /\ ENABLED (ActorOnStopped \/ ActorOnStarted))

\* the actor thread waits in a Consume for room in the FIFO, which only its own
\* Produce can make
ActorBlocked ==
    /\ Alive
    /\ actorPc \in {"in_stop", "post_exit", "in_start"}
    /\ ~Room(1)

\* C26: whatever the capacity of the FIFO, the actor is never waiting for room
\* in the full FIFO: not with the EXIT it posts to itself, not with the
\* ON_STOPPED of the callback inside its own Stop (and not with the ON_STARTED
\* of the callback inside its own Start).
C26_ActorNeverBlocked == ~ActorBlocked

\* C27: the actor calls Start at most once between two ON_STOPPED messages it
\* handles (and at most once before the first).
C27_OneStartPerStop == hist.starts <= 1

\* C28: a volume-down or volume-up key changes m_mute only by setting it, and
\* only when the master volume it leaves is 0; when that volume is above 0,
\* m_mute is what it was before the key.
C28_VolumeKeepsMute ==
    [][(Handles("a") \/ Handles("s")) =>
          /\ m_mute' # m_mute => (m_mute' /\ FEq(m_volMaster', 0))
          /\ FGt(m_volMaster', 0) => m_mute' = m_mute]_vars

====
